---- MODULE Spec2Model ----
(***************************************************************************)
(* A model of the TFTP server of tokio_tftpserver: the wire codec          *)
(* (tftp.rs parse_command / get_buffer_for_command), the error taxonomy    *)
(* (tftp_error.rs), the session record OpContext with recv and             *)
(* get_reply_command, the block-oriented file I/O (prepare_data_reply,     *)
(* prepare_ack_reply) and the datagram loop of main.rs (Server::run).      *)
(*                                                                         *)
(* Bytes are naturals 0..255, byte strings (packets, file contents, Rust   *)
(* Strings, which are UTF-8 byte vectors) are sequences of bytes.          *)
(***************************************************************************)
EXTENDS Integers, Sequences, FiniteSets, TLC

\* ------------------------------------------------------------------ bounds
\* Number of datagrams the loop handles in one explored run.
MaxSteps == 3
\* Largest "ordinary" block number a peer puts in an ACK or DATA (65535 and 0
\* are always among the inputs as well).
MaxBlock == 2

\* Number of datagrams of a run in which the peer sends the packets of a
\* transfer only.
MaxTransferSteps == 4

\* Number of datagrams of a run in which two peers send and recv_from fails.
MaxHostSteps == 2

\* Number of file operations the host fails in one explored run (a missing
\* file is no such failure: it follows from the files there are).
MaxFaults == 1

\* ------------------------------------------------------- program constants
\* The 512-byte block: `let mut buf: [u8; 512]` and `vec![0; 516]` minus header.
BlockSize == 512
\* Length of the DATA header (opcode + block number) written into the 516 buffer.
HeaderLen == 4
\* Block numbers are u16: arithmetic on them is modulo 2^16.
U16Mod == 65536
\* `const MAX_RETRIES: u32 = 3` of the receive loop.
MAX_RETRIES == 3

Min(a, b) == IF a < b THEN a ELSE b
Max(a, b) == IF a > b THEN a ELSE b

\* Option::None, and the outcome of a Rust panic (unwrap on Err, or an
\* arithmetic overflow in a build with overflow checks).
None == [type |-> "NONE"]
Panic == [type |-> "PANIC"]

\* u16::to_be_bytes and ReadBytesExt::read_u16::<BigEndian> on two bytes.
to_be_bytes(n) == <<n \div 256, n % 256>>
from_be_bytes(hi, lo) == hi * 256 + lo

\* ---------------------------------------------------------- error taxonomy
\* TftpError::error_code
error_code(e) ==
    CASE e = "NotDefined" -> 0
      [] e = "FileNotFound" -> 1
      [] e = "AccessViolation" -> 2
      [] e = "DiskFull" -> 3
      [] e = "IllegalOperation" -> 4
      [] e = "UnknownTransferId" -> 5
      [] e = "FileAlreadyExists" -> 6
      [] e = "NoSuchUser" -> 7
      [] e = "SeekFailed" -> 2
      [] e = "UnexpectedEof" -> 2
      [] e = "InternalError" -> 2
      [] e = "MalformedPacket" -> 4

\* TftpError::default_message, as the bytes of the (ASCII) message.
default_message(e) ==
    CASE e = "NotDefined" -> <<78,111,116,32,100,101,102,105,110,101,100>>  \* "Not defined"
      [] e = "FileNotFound" -> <<70,105,108,101,32,110,111,116,32,102,111,117,110,100>>  \* "File not found"
      [] e = "AccessViolation" -> <<65,99,99,101,115,115,32,118,105,111,108,97,116,105,111,110>>  \* "Access violation"
      [] e = "DiskFull" -> <<68,105,115,107,32,102,117,108,108,32,111,114,32,97,108,108,111,99,97,116,105,111,110,32,101,120,99,101,101,100,101,100>>  \* "Disk full or allocation exceeded"
      [] e = "IllegalOperation" -> <<73,108,108,101,103,97,108,32,84,70,84,80,32,111,112,101,114,97,116,105,111,110>>  \* "Illegal TFTP operation"
      [] e = "UnknownTransferId" -> <<85,110,107,110,111,119,110,32,116,114,97,110,115,102,101,114,32,73,68>>  \* "Unknown transfer ID"
      [] e = "FileAlreadyExists" -> <<70,105,108,101,32,97,108,114,101,97,100,121,32,101,120,105,115,116,115>>  \* "File already exists"
      [] e = "NoSuchUser" -> <<78,111,32,115,117,99,104,32,117,115,101,114>>  \* "No such user"
      [] e = "SeekFailed" -> <<65,99,99,101,115,115,32,118,105,111,108,97,116,105,111,110,32,45,32,115,101,101,107,32,102,97,105,108,101,100>>  \* "Access violation - seek failed"
      [] e = "UnexpectedEof" -> <<65,99,99,101,115,115,32,118,105,111,108,97,116,105,111,110,32,45,32,117,110,101,120,112,101,99,116,101,100,32,69,79,70>>  \* "Access violation - unexpected EOF"
      [] e = "InternalError" -> <<73,110,116,101,114,110,97,108,32,101,114,114,111,114>>  \* "Internal error"
      [] e = "MalformedPacket" -> <<73,108,108,101,103,97,108,32,84,70,84,80,32,111,112,101,114,97,116,105,111,110,32,45,32,109,97,108,102,111,114,109,101,100,32,112,97,99,107,101,116>>  \* "Illegal TFTP operation - malformed packet"

\* TftpError::to_command
to_command(e) == [type |-> "ERROR", errorcode |-> error_code(e), errmsg |-> default_message(e)]

\* TftpError::from_io_error, on the std::io::ErrorKind of the failure.
from_io_error(kind) ==
    CASE kind = "NotFound" -> "FileNotFound"
      [] kind = "PermissionDenied" -> "AccessViolation"
      [] kind \in {"WriteZero", "UnexpectedEof"} -> "DiskFull"
      [] kind = "AlreadyExists" -> "FileAlreadyExists"
      [] OTHER -> "InternalError"

\* TftpError::from_write_error
from_write_error(kind) ==
    CASE kind \in {"WriteZero", "UnexpectedEof"} -> "DiskFull"
      [] kind = "PermissionDenied" -> "AccessViolation"
      [] OTHER -> "InternalError"

\* The match on e.kind() after a failed File::read in prepare_data_reply.
from_read_error(kind) ==
    CASE kind = "UnexpectedEof" -> "UnexpectedEof"
      [] kind = "PermissionDenied" -> "AccessViolation"
      [] OTHER -> "InternalError"

\* ------------------------------------------------------------- wire codec
\* Opcode::try_from taking every unknown opcode for an ACK.
Opcode_try_from_lenient(opcode) ==
    CASE opcode = 1 -> "RRQ"
      [] opcode = 2 -> "WRQ"
      [] opcode = 3 -> "DATA"
      [] opcode = 4 -> "ACK"
      [] opcode = 5 -> "ERROR"
      [] OTHER -> "ACK"

\* Opcode::try_from: 1..5 are the five packet types, anything else UNKNOWN.
Opcode_try_from(opcode) ==
    CASE opcode = 1 -> "RRQ"
      [] opcode = 2 -> "WRQ"
      [] opcode = 3 -> "DATA"
      [] opcode = 4 -> "ACK"
      [] opcode = 5 -> "ERROR"
      [] OTHER -> "UNKNOWN"

\* Index of the first 0 byte of s, or 0 when s holds none (BufRead::read_until).
RECURSIVE FirstNul(_, _)
FirstNul(s, i) ==
    IF i > Len(s) THEN 0
    ELSE IF s[i] = 0 THEN i
    ELSE FirstNul(s, i + 1)

IsCont(s, i) == i <= Len(s) /\ s[i] >= 128 /\ s[i] <= 191

\* String::from_utf8 succeeds: s is well-formed UTF-8 (no overlong forms, no
\* surrogates, nothing above U+10FFFF).
RECURSIVE Utf8Valid(_, _)
Utf8Valid(s, i) ==
    IF i > Len(s) THEN TRUE
    ELSE LET b == s[i] IN
      IF b < 128 THEN Utf8Valid(s, i + 1)
      ELSE IF b >= 194 /\ b <= 223 THEN IsCont(s, i + 1) /\ Utf8Valid(s, i + 2)
      ELSE IF b = 224 THEN
          IsCont(s, i + 1) /\ s[i + 1] >= 160 /\ IsCont(s, i + 2) /\ Utf8Valid(s, i + 3)
      ELSE IF b = 237 THEN
          IsCont(s, i + 1) /\ s[i + 1] <= 159 /\ IsCont(s, i + 2) /\ Utf8Valid(s, i + 3)
      ELSE IF b >= 225 /\ b <= 239 THEN
          IsCont(s, i + 1) /\ IsCont(s, i + 2) /\ Utf8Valid(s, i + 3)
      ELSE IF b = 240 THEN
          IsCont(s, i + 1) /\ s[i + 1] >= 144 /\ IsCont(s, i + 2) /\ IsCont(s, i + 3)
              /\ Utf8Valid(s, i + 4)
      ELSE IF b >= 241 /\ b <= 243 THEN
          IsCont(s, i + 1) /\ IsCont(s, i + 2) /\ IsCont(s, i + 3) /\ Utf8Valid(s, i + 4)
      ELSE IF b = 244 THEN
          IsCont(s, i + 1) /\ s[i + 1] <= 143 /\ IsCont(s, i + 2) /\ IsCont(s, i + 3)
              /\ Utf8Valid(s, i + 4)
      ELSE FALSE

\* parse_null_terminated_string on the unread bytes `rest` of the cursor:
\* [ok, str, rest], rest being what is left unread after the terminator.
parse_null_terminated_string(rest) ==
    LET z == FirstNul(rest, 1) IN
    IF z = 0 THEN [ok |-> FALSE, str |-> <<>>, rest |-> <<>>]
    ELSE LET str == SubSeq(rest, 1, z - 1) IN
         [ok |-> Utf8Valid(str, 1), str |-> str, rest |-> SubSeq(rest, z + 1, Len(rest))]

\* parse_filename_mode taking the first string for the mode and the second
\* for the filename.
parse_filename_mode_swapped(rest) ==
    LET f == parse_null_terminated_string(rest) IN
    IF ~f.ok THEN [ok |-> FALSE, filename |-> <<>>, mode |-> <<>>]
    ELSE LET m == parse_null_terminated_string(f.rest) IN
         IF ~m.ok THEN [ok |-> FALSE, filename |-> <<>>, mode |-> <<>>]
         ELSE [ok |-> TRUE, filename |-> m.str, mode |-> f.str]

\* parse_filename_mode: filename, then mode, the first failure wins.
parse_filename_mode(rest) ==
    LET f == parse_null_terminated_string(rest) IN
    IF ~f.ok THEN [ok |-> FALSE, filename |-> <<>>, mode |-> <<>>]
    ELSE LET m == parse_null_terminated_string(f.rest) IN
         IF ~m.ok THEN [ok |-> FALSE, filename |-> <<>>, mode |-> <<>>]
         ELSE [ok |-> TRUE, filename |-> f.str, mode |-> m.str]

\* parse_command reading the DATA payload into a buffer without the 512-byte
\* limit (a variant the size bound is checked against).
parse_command_uncapped(opcode, rest) ==
    CASE opcode \in {"RRQ", "WRQ"} ->
           LET fm == parse_filename_mode(rest) IN
           IF fm.ok THEN [type |-> opcode, filename |-> fm.filename, mode |-> fm.mode]
           ELSE to_command("MalformedPacket")
      [] opcode = "ACK" ->
           IF Len(rest) >= 2 THEN [type |-> "ACK", blocknum |-> from_be_bytes(rest[1], rest[2])]
           ELSE to_command("MalformedPacket")
      [] opcode = "ERROR" ->
           IF Len(rest) < 2 THEN to_command("MalformedPacket")
           ELSE LET msg == parse_null_terminated_string(SubSeq(rest, 3, Len(rest))) IN
                [type |-> "ERROR", errorcode |-> from_be_bytes(rest[1], rest[2]),
                 errmsg |-> IF msg.ok THEN msg.str ELSE <<>>]
      [] opcode = "DATA" ->
           IF Len(rest) < 2 THEN to_command("MalformedPacket")
           ELSE [type |-> "DATA", blocknum |-> from_be_bytes(rest[1], rest[2]),
                 data |-> SubSeq(rest, 3, Len(rest))]
      [] OTHER -> to_command("IllegalOperation")

\* parse_command: `rest` is what follows the two opcode bytes.
parse_command(opcode, rest) ==
    CASE opcode \in {"RRQ", "WRQ"} ->
           LET fm == parse_filename_mode(rest) IN
           IF fm.ok THEN [type |-> opcode, filename |-> fm.filename, mode |-> fm.mode]
           ELSE to_command("MalformedPacket")
      [] opcode = "ACK" ->
           IF Len(rest) >= 2 THEN [type |-> "ACK", blocknum |-> from_be_bytes(rest[1], rest[2])]
           ELSE to_command("MalformedPacket")
      [] opcode = "ERROR" ->
           IF Len(rest) < 2 THEN to_command("MalformedPacket")
           ELSE LET msg == parse_null_terminated_string(SubSeq(rest, 3, Len(rest))) IN
                [type |-> "ERROR", errorcode |-> from_be_bytes(rest[1], rest[2]),
                 errmsg |-> IF msg.ok THEN msg.str ELSE <<>>]
      [] opcode = "DATA" ->
           IF Len(rest) < 2 THEN to_command("MalformedPacket")
           ELSE [type |-> "DATA", blocknum |-> from_be_bytes(rest[1], rest[2]),
                 data |-> SubSeq(rest, 3, Min(Len(rest), 2 + BlockSize))]
      [] OTHER -> to_command("IllegalOperation")

\* process_buffer: read_u16(...).unwrap() panics when fewer than two bytes are
\* there to read; otherwise the opcode selects the parser.
process_buffer(buf) ==
    IF Len(buf) < 2 THEN Panic
    ELSE parse_command(Opcode_try_from(from_be_bytes(buf[1], buf[2])), SubSeq(buf, 3, Len(buf)))

\* Option<Vec<u8>>: the bytes handed to send_to, or nothing.
NoBytes == [some |-> FALSE, bytes |-> <<>>]
SomeBytes(b) == [some |-> TRUE, bytes |-> b]

\* get_buffer_for_command: a DATA is already serialised by prepare_data_reply.
get_buffer_for_command(command) ==
    CASE command.type = "DATA" -> SomeBytes(command.data)
      [] command.type = "ACK" -> SomeBytes(<<0, 4>> \o to_be_bytes(command.blocknum))
      [] command.type = "ERROR" ->
           SomeBytes(<<0, 5>> \o to_be_bytes(command.errorcode) \o command.errmsg \o <<0>>)
      [] OTHER -> NoBytes

\* --------------------------------------------------------- file I/O (host)
\* A file of the host: absent, or present with its length and its bytes by
\* position (1-based). Positions below the length that were never written
\* (the holes a seek past the end leaves) read as zero.
NoFile == [exists |-> FALSE, len |-> 0, bytes |-> <<>>]
File(content) == [exists |-> TRUE, len |-> Len(content), bytes |-> content]
ByteAt(file, i) == IF i \in DOMAIN file.bytes THEN file.bytes[i] ELSE 0
Content(file) == [i \in 1..file.len |-> ByteAt(file, i)]

\* The files of the base directory are a function from names to files; a name
\* it does not hold is an absent file, and creating it adds the name.
Lookup(files, name) == IF name \in DOMAIN files THEN files[name] ELSE NoFile
Store(files, name, file) ==
    [n \in DOMAIN files \cup {name} |-> IF n = name THEN file ELSE files[n]]

\* The host I/O failure injected while one reply is computed: the operation
\* that fails (open, seek, read, write, flush) and its std::io::ErrorKind.
NoFault == [op |-> "none", kind |-> "none"]

\* What a reply computation yields: the reply Command (or None, or Panic), the
\* files afterwards, the file operations performed and whether the host
\* failed one of them.
Outcome(r, files, ops, failed) == [reply |-> r, fs |-> files, ops |-> ops, failed |-> failed]

\* write_all that reports success without the bytes reaching the file.
WriteAt_dropped(file, off, data) ==
    [exists |-> TRUE, len |-> file.len, bytes |-> file.bytes]

\* Write::write_all at position off of a file: the bytes land at off+1.., the
\* length grows to cover them; an empty write leaves the file as it is.
WriteAt(file, off, data) ==
    [exists |-> TRUE,
     len |-> IF data = <<>> THEN file.len ELSE Max(file.len, off + Len(data)),
     bytes |-> [i \in DOMAIN file.bytes \cup ((off + 1)..(off + Len(data))) |->
                  IF i > off /\ i <= off + Len(data) THEN data[i - off] ELSE file.bytes[i]]]

\* File::read returning all that is left of the file, however much.
ReadAt_uncapped(file, off) ==
    [i \in 1..Max(0, file.len - off) |-> ByteAt(file, off + i)]

\* File::read into the 512-byte tail of the 516-byte buffer, at position off.
ReadAt(file, off) ==
    [i \in 1..Min(BlockSize, Max(0, file.len - off)) |-> ByteAt(file, off + i)]

\* seek_position with the offset of block n taken as n * 512.
seek_position_unshifted(blocknum, overflow_checks, fault) ==
    IF blocknum = 0
    THEN [panic |-> overflow_checks, fails |-> TRUE, off |-> 0]
    ELSE [panic |-> FALSE, fails |-> fault.op = "seek", off |-> blocknum * BlockSize]

\* `(blknum64 - 1) * 512` on u64 and the seek to it: for block 0 the
\* subtraction overflows, which panics in a build with overflow checks and
\* wraps to 2^64 - 512 otherwise, an offset lseek rejects (it exceeds i64).
\* [panic, fails, off].
seek_position(blocknum, overflow_checks, fault) ==
    IF blocknum = 0
    THEN [panic |-> overflow_checks, fails |-> TRUE, off |-> 0]
    ELSE [panic |-> FALSE, fails |-> fault.op = "seek", off |-> (blocknum - 1) * BlockSize]

\* prepare_data_reply: open read-only, seek, read up to 512 bytes behind the
\* 4-byte header; the DATA's `data` holds header and payload.
prepare_data_reply(files, filename, blocknum, fault, overflow_checks) ==
    LET ops == {"open_read"} IN
    IF fault.op = "open"
    THEN Outcome(to_command(from_io_error(fault.kind)), files, ops, TRUE)
    ELSE IF ~Lookup(files, filename).exists
    THEN Outcome(to_command(from_io_error("NotFound")), files, ops, TRUE)
    ELSE LET pos == seek_position(blocknum, overflow_checks, fault) IN
         IF pos.panic THEN Outcome(Panic, files, ops, FALSE)
         ELSE IF pos.fails THEN Outcome(to_command("SeekFailed"), files, ops, TRUE)
         ELSE IF fault.op = "read"
         THEN Outcome(to_command(from_read_error(fault.kind)), files, ops \cup {"read"}, TRUE)
         ELSE Outcome([type |-> "DATA", blocknum |-> blocknum,
                       data |-> <<0, 3>> \o to_be_bytes(blocknum)
                                \o ReadAt(Lookup(files, filename), pos.off)],
                      files, ops \cup {"read"}, FALSE)

\* prepare_ack_reply: block 1 creates or truncates the file, any other block
\* opens it for writing and seeks; then write_all and flush.
prepare_ack_reply(files, filename, blocknum, data, fault, overflow_checks) ==
    LET opened == IF blocknum = 1 THEN Store(files, filename, File(<<>>)) ELSE files
        ops == IF blocknum = 1 THEN {"create"} ELSE {"open_write"}
        pos == IF blocknum = 1 THEN [panic |-> FALSE, fails |-> FALSE, off |-> 0]
               ELSE seek_position(blocknum, overflow_checks, fault)
    IN
    IF fault.op = "open"
    THEN Outcome(to_command(from_io_error(fault.kind)), files, ops, TRUE)
    ELSE IF blocknum # 1 /\ ~Lookup(files, filename).exists
    THEN Outcome(to_command(from_io_error("NotFound")), files, ops, TRUE)
    ELSE IF pos.panic THEN Outcome(Panic, opened, ops, FALSE)
    ELSE IF pos.fails THEN Outcome(to_command("SeekFailed"), opened, ops, TRUE)
    ELSE IF fault.op = "write"
    THEN Outcome(to_command(from_write_error(fault.kind)), opened, ops \cup {"write"}, TRUE)
    ELSE LET written == Store(opened, filename, WriteAt(Lookup(opened, filename), pos.off, data))
         IN IF fault.op = "flush"
            THEN Outcome(to_command("DiskFull"), written, ops \cup {"write"}, TRUE)
            ELSE Outcome([type |-> "ACK", blocknum |-> blocknum], written,
                         ops \cup {"write"}, FALSE)

\* ------------------------------------------------------- session and engine
\* build_new_context: a session is born from RRQ or WRQ only.
build_new_context(current_op) ==
    IF current_op.type \in {"RRQ", "WRQ"}
    THEN [current_op |-> current_op, block_num |-> 0, ack_num |-> 0,
          filename |-> current_op.filename, mode |-> current_op.mode]
    ELSE None

\* `blocknum + 1` on u16 in get_reply_command: at 65535 it panics in a build
\* with overflow checks and wraps to 0 otherwise.
next_block(blocknum) == (blocknum + 1) % U16Mod

\* get_reply_command: dispatch on the context's current_op.
get_reply_command(ctx, files, fault, overflow_checks) ==
    CASE ctx.current_op.type = "RRQ" ->
           prepare_data_reply(files, ctx.filename, 1, fault, overflow_checks)
      [] ctx.current_op.type = "WRQ" ->
           Outcome([type |-> "ACK", blocknum |-> 0], files, {}, FALSE)
      [] ctx.current_op.type = "ACK" ->
           IF ctx.current_op.blocknum + 1 >= U16Mod /\ overflow_checks
           THEN Outcome(Panic, files, {}, FALSE)
           ELSE prepare_data_reply(files, ctx.filename, next_block(ctx.current_op.blocknum),
                                   fault, overflow_checks)
      [] ctx.current_op.type = "DATA" ->
           prepare_ack_reply(files, ctx.filename, ctx.current_op.blocknum,
                             ctx.current_op.data, fault, overflow_checks)
      [] OTHER -> Outcome(None, files, {}, FALSE)

\* recv_continue replacing current_op without recording the block number.
recv_continue_unrecorded(recv_cmd, ctx) ==
    IF ctx.current_op.type \in {"RRQ", "ACK", "WRQ", "DATA"}
    THEN [ctx EXCEPT !.current_op = recv_cmd]
    ELSE None

\* The arm of recv for an ACK or DATA that arrives in a live session.
recv_continue(recv_cmd, ctx) ==
    IF ctx.current_op.type \in {"RRQ", "ACK", "WRQ", "DATA"}
    THEN [ctx EXCEPT !.ack_num = recv_cmd.blocknum, !.current_op = recv_cmd]
    ELSE None

\* recv_error keeping the session of the peer that reported the error.
recv_error_keeps(recv_cmd, ctx) == ctx

\* The arm of recv for an ERROR that arrives in a live session: the transfer
\* is aborted.
recv_error(recv_cmd, ctx) == None

\* recv_command ignoring a request that arrives while a session is live.
recv_command_keeps(recv_cmd, prev) ==
    IF prev # None
    THEN CASE recv_cmd.type \in {"ACK", "DATA"} -> recv_continue(recv_cmd, prev)
           [] recv_cmd.type = "ERROR" -> recv_error(recv_cmd, prev)
           [] OTHER -> prev
    ELSE IF recv_cmd.type = "ERROR" THEN None
    ELSE build_new_context(recv_cmd)

\* recv on an already parsed command.
recv_command(recv_cmd, prev) ==
    IF prev # None
    THEN CASE recv_cmd.type \in {"ACK", "DATA"} -> recv_continue(recv_cmd, prev)
           [] recv_cmd.type = "ERROR" -> recv_error(recv_cmd, prev)
           [] OTHER -> build_new_context(recv_cmd)
    ELSE IF recv_cmd.type = "ERROR" THEN None
    ELSE build_new_context(recv_cmd)

\* recv: parse the datagram, then update, create or drop the session.
recv(buf, prev) ==
    LET recv_cmd == process_buffer(buf) IN
    IF recv_cmd = Panic THEN Panic ELSE recv_command(recv_cmd, prev)

\* ----------------------------------------------------------------- inputs
\* The file names peers ask for: "f" and "g".
FileNames == {<<102>>, <<103>>}
\* "octet"
Octet == <<111, 99, 116, 101, 116>>

\* Contents of a file of n bytes, and a DATA payload of n bytes.
FileBytes(n) == [i \in 1..n |-> (i % 250) + 1]
Payload(n, seed) == [i \in 1..n |-> ((i + seed) % 200) + 1]

\* Lengths of the file "f" at start: empty, short, exactly one block, longer.
InitLens == {0, 1, BlockSize, BlockSize + 1}

\* Block numbers peers send.
Blocks == (0..MaxBlock) \cup {U16Mod - 1}

PktRRQ(f, m) == <<0, 1>> \o f \o <<0>> \o m \o <<0>>
PktWRQ(f, m) == <<0, 2>> \o f \o <<0>> \o m \o <<0>>
PktDATA(n, payload) == <<0, 3>> \o to_be_bytes(n) \o payload
PktACK(n) == <<0, 4>> \o to_be_bytes(n)
PktERROR(c, msg) == <<0, 5>> \o to_be_bytes(c) \o msg \o <<0>>

\* DATA payloads: empty, short, and a full block.
Payloads == {Payload(0, 0), Payload(1, 0), Payload(BlockSize, 0)}

\* Datagrams that parse to no RRQ, WRQ, ACK, DATA or peer ERROR: an unknown
\* opcode (the one of test::recv_invalid), a truncated ACK, an RRQ whose
\* filename and a WRQ whose mode lacks the terminator, a DATA without block
\* number, an ERROR with half a code; and datagrams too short to hold an opcode.
MalformedPkts ==
    {<<9, 9, 9>>, <<0, 4, 0>>, <<0, 1, 102>>, <<0, 2, 102, 0, 111>>, <<0, 3>>, <<0, 5, 0>>}
ShortPkts == {<<>>, <<0>>}
\* An ERROR packet whose message lacks the terminator: code 1, "f".
UnterminatedError == <<0, 5, 0, 1, 102>>

Packets ==
    {PktRRQ(f, Octet) : f \in FileNames} \cup {PktWRQ(f, Octet) : f \in FileNames}
    \cup {PktACK(n) : n \in Blocks}
    \cup {PktDATA(n, p) : n \in 1..MaxBlock, p \in Payloads}
    \cup {PktDATA(n, Payload(1, 1)) : n \in {0, U16Mod - 1}}
    \cup {PktDATA(1, Payload(BlockSize + 1, 0))}
    \cup {PktERROR(1, default_message("FileNotFound")), UnterminatedError}
    \cup MalformedPkts \cup ShortPkts

\* Host failures that can hit the computation of the reply to a context:
\* the read path opens, seeks and reads, the write path opens (or creates),
\* seeks, writes and flushes; the reply to a WRQ touches no file.
Faults(ctx, used) ==
    {NoFault} \cup
    (IF ctx = None \/ used >= MaxFaults THEN {}
     ELSE IF ctx.current_op.type \in {"RRQ", "ACK"}
     THEN {[op |-> "open", kind |-> "PermissionDenied"], [op |-> "seek", kind |-> "Other"],
           [op |-> "read", kind |-> "Other"]}
     ELSE IF ctx.current_op.type = "DATA"
     THEN {[op |-> "open", kind |-> "PermissionDenied"], [op |-> "seek", kind |-> "Other"],
           [op |-> "write", kind |-> "WriteZero"], [op |-> "flush", kind |-> "Other"]}
     ELSE {})

\* Every kind of failure the translations tell apart, on each operation of
\* the two paths: open, read and write fail with any of the kinds, seek and
\* flush are translated whatever the kind.
ErrorKinds == {"PermissionDenied", "WriteZero", "UnexpectedEof", "AlreadyExists", "Other"}
AllFaults(ctx, used) ==
    {NoFault} \cup
    (IF ctx = None \/ used >= MaxFaults THEN {}
     ELSE IF ctx.current_op.type \in {"RRQ", "ACK"}
     THEN {[op |-> o, kind |-> k] : o \in {"open", "read"}, k \in ErrorKinds}
          \cup {[op |-> "seek", kind |-> "Other"]}
     ELSE IF ctx.current_op.type = "DATA"
     THEN {[op |-> o, kind |-> k] : o \in {"open", "write"}, k \in ErrorKinds}
          \cup {[op |-> "seek", kind |-> "Other"], [op |-> "flush", kind |-> "Other"]}
     ELSE {})

\* The datagrams of a peer that transfers the file "f" in blocks: the two
\* requests, DATA{1} with a full block, DATA{2} with a full and with a short
\* one, and the ACKs of blocks 1 and 2.
TransferPackets ==
    {PktRRQ(<<102>>, Octet), PktWRQ(<<102>>, Octet),
     PktDATA(1, Payload(BlockSize, 0)), PktDATA(2, Payload(BlockSize, 0)),
     PktDATA(2, Payload(1, 0)), PktACK(1), PktACK(2)}

\* The peers that send to the socket, and no peer.
Peers == {"A", "B"}
NoPeer == "none"

\* The datagrams the two peers send: the requests for "f", the ACK of block 1
\* and a DATA{1} with a short payload.
HostPackets ==
    {PktRRQ(<<102>>, Octet), PktWRQ(<<102>>, Octet), PktACK(1), PktDATA(1, Payload(1, 0))}

\* should_retry retrying whatever the kind.
should_retry_always(kind) == TRUE

\* should_retry: the kinds of failure of recv_from that are retried.
should_retry(kind) == kind \in {"WouldBlock", "TimedOut", "ConnectionReset", "Interrupted"}

\* The kinds recv_from fails with: the four that are retried, and two that
\* are not.
RecvErrorKinds ==
    {"WouldBlock", "TimedOut", "ConnectionReset", "Interrupted", "ConnectionRefused", "Other"}

\* ------------------------------------------------------------------ state
VARIABLES
    context,          \* main.rs `context`: the session, or None
    fs,               \* the files of the base directory, by name
    pc,               \* "running", "panicked" once the process aborted, or
                      \* "stopped" once run returned the error of recv_from
    overflow_checks,  \* whether the build checks integer overflow (debug)
    steps,            \* datagrams handled so far
    inbound,          \* the datagram handled last (buf[..size])
    prev_ctx,         \* the context recv was given for it
    reply,            \* the reply Command computed for it, or None
    wire,             \* the bytes sent in answer to it, if any
    file_ops,         \* the file operations performed while handling it
    io_failed,        \* whether the host failed one of them
    nfaults,          \* host failures injected so far
    injected,         \* the host failure injected while handling it, or NoFault
    born,             \* the request that opened the live session: "RRQ", "WRQ", "none"
    track,            \* progress of an in-order transfer (history)
    sender,           \* `peer`: the address the datagram handled last came from
    sent_to,          \* the address its reply was sent to, or NoPeer
    owner,            \* the peer whose RRQ/WRQ opened the live session (history)
    retries,          \* `retries` of the wait for the next datagram
    recv_failure      \* the kind of the last failure of recv_from, "none" after a success

vars == <<context, fs, pc, overflow_checks, steps, inbound, prev_ctx, reply, wire,
          file_ops, io_failed, nfaults, injected, born, track,
          sender, sent_to, owner, retries, recv_failure>>

\* History of a transfer whose peer follows the protocol: dir is "down"
\* after an RRQ while every later datagram is the ACK of the DATA sent last,
\* "up" after a WRQ while every later datagram is the DATA of the next block,
\* all but the last of them full; "none" otherwise.
NoTrack == [dir |-> "none", n |-> 0, nshort |-> 0, lastshort |-> FALSE, L |-> 0,
            concat |-> <<>>, ok |-> TRUE, failed |-> FALSE]

IsShortData(r) == r.type = "DATA" /\ Len(r.data) - HeaderLen < BlockSize

Track(t, buf, cmd, prev, out, files) ==
    CASE cmd.type = "RRQ" ->
           [NoTrack EXCEPT !.dir = "down",
              !.L = Lookup(files, cmd.filename).len,
              !.n = IF out.reply.type = "DATA" THEN 1 ELSE 0,
              !.nshort = IF IsShortData(out.reply) THEN 1 ELSE 0,
              !.lastshort = IsShortData(out.reply),
              !.failed = out.failed]
      [] cmd.type = "WRQ" ->
           [NoTrack EXCEPT !.dir = "up", !.ok = (out.reply = [type |-> "ACK", blocknum |-> 0])]
      [] cmd.type = "ACK" /\ prev # None /\ t.dir = "down" /\ cmd.blocknum = t.n /\ t.n >= 1 ->
           [t EXCEPT !.n = IF out.reply.type = "DATA" THEN t.n + 1 ELSE t.n,
                     !.nshort = IF IsShortData(out.reply) THEN t.nshort + 1 ELSE t.nshort,
                     !.lastshort = IF out.reply.type = "DATA" THEN IsShortData(out.reply)
                                   ELSE t.lastshort,
                     !.failed = t.failed \/ out.failed]
      [] cmd.type = "DATA" /\ prev # None /\ t.dir = "up" /\ cmd.blocknum = t.n + 1
            /\ ~t.lastshort /\ Len(buf) - HeaderLen <= BlockSize ->
           [t EXCEPT !.n = t.n + 1,
                     !.concat = t.concat \o cmd.data,
                     !.lastshort = Len(cmd.data) < BlockSize,
                     !.ok = t.ok /\ out.reply = [type |-> "ACK", blocknum |-> cmd.blocknum],
                     !.failed = t.failed \/ out.failed]
      [] OTHER -> NoTrack

Init ==
    /\ context = None
    /\ fs \in {[f \in FileNames |-> IF f = <<102>> THEN File(FileBytes(n)) ELSE NoFile] :
                 n \in InitLens}
              \cup {[f \in FileNames |-> NoFile]}
    /\ pc = "running"
    /\ overflow_checks \in BOOLEAN
    /\ steps = 0
    /\ inbound = <<>>
    /\ prev_ctx = None
    /\ reply = None
    /\ wire = NoBytes
    /\ file_ops = {}
    /\ io_failed = FALSE
    /\ nfaults = 0
    /\ injected = NoFault
    /\ born = "none"
    /\ track = NoTrack
    /\ sender = NoPeer
    /\ sent_to = NoPeer
    /\ owner = NoPeer
    /\ retries = 0
    /\ recv_failure = "none"

\* One turn of the loop of Server::run on a received datagram that process_buffer
\* can read an opcode from: recv, then the reply, its bytes and send_to. An
\* injected failure is one that changes the outcome (it hits an operation the
\* reply performs).
\* A panic while the reply is computed (integer overflow) ends the process.
Handle(buf, fault) ==
    LET recv_cmd == process_buffer(buf)
        new_context == recv(buf, context)
        out == IF new_context = None THEN Outcome(None, fs, {}, FALSE)
               ELSE get_reply_command(new_context, fs, fault, overflow_checks)
    IN
    /\ inbound' = buf
    /\ prev_ctx' = context
    /\ context' = new_context
    /\ fs' = out.fs
    /\ file_ops' = out.ops
    /\ io_failed' = out.failed
    /\ fault # NoFault => out # get_reply_command(new_context, fs, NoFault, overflow_checks)
    /\ nfaults' = IF fault = NoFault THEN nfaults ELSE nfaults + 1
    /\ injected' = fault
    /\ steps' = steps + 1
    /\ born' = IF new_context = None THEN "none"
               ELSE IF recv_cmd.type \in {"RRQ", "WRQ"} THEN recv_cmd.type
               ELSE born
    /\ UNCHANGED overflow_checks
    /\ IF out.reply = Panic
       THEN /\ pc' = "panicked"
            /\ reply' = None
            /\ wire' = NoBytes
            /\ track' = NoTrack
       ELSE /\ pc' = "running"
            /\ reply' = out.reply
            /\ wire' = IF out.reply = None THEN NoBytes ELSE get_buffer_for_command(out.reply)
            /\ track' = Track(track, buf, recv_cmd, context, out, fs)

\* The same turn on a datagram of fewer than two bytes: the unwrap in
\* process_buffer panics inside recv, before `context` is assigned.
Abort(buf) ==
    /\ process_buffer(buf) = Panic
    /\ inbound' = buf
    /\ prev_ctx' = context
    /\ pc' = "panicked"
    /\ reply' = None
    /\ wire' = NoBytes
    /\ file_ops' = {}
    /\ io_failed' = FALSE
    /\ steps' = steps + 1
    /\ track' = NoTrack
    /\ injected' = NoFault
    /\ UNCHANGED <<context, fs, overflow_checks, born, nfaults>>

\* recv_from succeeded with a datagram of `peer`: the wait is over (its
\* `retries` is gone, the next wait starts at 0), the turn handles the
\* datagram and whatever it sends goes to `peer`.
Received(peer) ==
    /\ sender' = peer
    /\ sent_to' = IF wire'.some THEN peer ELSE NoPeer
    /\ owner' = IF context' = None THEN NoPeer
                ELSE IF process_buffer(inbound').type \in {"RRQ", "WRQ"} THEN peer
                ELSE owner
    /\ retries' = 0
    /\ recv_failure' = "none"

Datagram ==
    /\ pc = "running"
    /\ steps < MaxSteps
    /\ \E buf \in Packets :
         /\ process_buffer(buf) # Panic
         /\ \E fault \in Faults(recv(buf, context), nfaults) :
              Handle(buf, fault) /\ Received("A")

ShortDatagram ==
    /\ pc = "running"
    /\ steps < MaxSteps
    /\ \E buf \in Packets : Abort(buf) /\ Received("A")

Next == Datagram \/ ShortDatagram

Spec == Init /\ [][Next]_vars

\* The same loop fed by a peer that sends the datagrams of a transfer only,
\* for one more turn, the host failing file operations in every kind.
TransferDatagram ==
    /\ pc = "running"
    /\ steps < MaxTransferSteps
    /\ \E buf \in TransferPackets :
         \E fault \in AllFaults(recv(buf, context), nfaults) :
           Handle(buf, fault) /\ Received("A")

NextTransfer == TransferDatagram

SpecTransfer == Init /\ [][NextTransfer]_vars

\* The loop on a socket two peers send to, and whose recv_from can fail: a
\* datagram of either peer is handled by the one `context` there is.
HostDatagram ==
    /\ pc = "running"
    /\ steps < MaxHostSteps
    /\ \E peer \in Peers : \E buf \in HostPackets :
         Handle(buf, NoFault) /\ Received(peer)

\* recv_from fails with an error of `kind`: retried while fewer than
\* MAX_RETRIES retries were made in this wait and the kind is one to retry,
\* otherwise run returns the error.
RecvFail ==
    /\ pc = "running"
    /\ \E kind \in RecvErrorKinds :
         /\ recv_failure' = kind
         /\ IF retries < MAX_RETRIES /\ should_retry(kind)
            THEN retries' = retries + 1 /\ pc' = pc
            ELSE retries' = retries /\ pc' = "stopped"
    /\ UNCHANGED <<context, fs, overflow_checks, steps, inbound, prev_ctx, reply, wire,
                   file_ops, io_failed, nfaults, injected, born, track,
                   sender, sent_to, owner>>

NextHost == HostDatagram \/ RecvFail

SpecHost == Init /\ [][NextHost]_vars

\* The context, the replies and the files have the shapes the code gives them.
TypeOK ==
    /\ pc \in {"running", "panicked", "stopped"}
    /\ context = None \/ context.current_op.type \in {"RRQ", "WRQ", "ACK", "DATA"}
    /\ reply.type \in {"NONE", "DATA", "ACK", "ERROR"}
    /\ wire.some = (reply # None)
    /\ steps \in 0..Max(MaxSteps, Max(MaxTransferSteps, MaxHostSteps))
    /\ retries \in 0..MAX_RETRIES

\* ------------------------------------------------------------ the claims
\* What the datagram handled last parsed to.
Parsed == process_buffer(inbound)
\* A loop turn: the step handles one datagram.
Turn == steps' = steps + 1
ParsedNext == process_buffer(inbound')

Ack(n) == [type |-> "ACK", blocknum |-> n]

\* C1: a download ends after its short block: once a DATA with fewer than
\* 512 payload bytes was produced and the peer's ACK of that block arrives,
\* the session is destroyed and no further DATA is produced (stated for the
\* turns in which the host fails no file operation).
C1_DownloadEndsAfterShortBlock ==
    [][(/\ track.dir = "down" /\ track.lastshort /\ ~track.failed
        /\ reply.type = "DATA"
        /\ Turn /\ ~io_failed'
        /\ ParsedNext = Ack(reply.blocknum))
       => (context' = None /\ reply' = None /\ ~wire'.some)]_vars

\* C2: in a download of a file of length L whose peer acknowledges every DATA
\* it receives, in order, the DATA blocks emitted number floor(L/512) + 1 and
\* only the last of them is shorter than 512 bytes.
C2_DownloadBlockCount ==
    (track.dir = "down" /\ ~track.failed)
    => /\ track.n <= (track.L \div BlockSize) + 1
       /\ track.nshort <= 1
       /\ (track.nshort = 1 => track.lastshort)

\* C3: an upload ends after its short block: once a DATA with fewer than 512
\* payload bytes was received and acknowledged, the session is destroyed, so
\* a later ACK or DATA is an orphan: no reply, no file access (stated for the
\* turns in which the host fails no file operation).
C3_UploadEndsAfterShortBlock ==
    [][(/\ track.dir = "up" /\ track.lastshort /\ ~track.failed
        /\ reply = Ack(track.n)
        /\ Turn /\ ~io_failed'
        /\ ParsedNext.type \in {"ACK", "DATA"})
       => (context' = None /\ reply' = None /\ ~wire'.some /\ file_ops' = {} /\ fs' = fs)]_vars

\* C4: an upload whose peer sends WRQ and then DATA{1..k} in order, blocks
\* 1..k-1 full and block k short, is answered ACK{0}, ACK{1}, ..., ACK{k}, and
\* the file then holds exactly the k payloads, concatenated (the host failing
\* none of the file operations).
C4_UploadInOrder ==
    (track.dir = "up" /\ track.lastshort /\ ~track.failed)
    => /\ track.ok
       /\ reply = Ack(track.n)
       /\ wire = SomeBytes(PktACK(track.n))
       /\ context # None
       /\ Lookup(fs, context.filename).exists
       /\ Content(Lookup(fs, context.filename)) = track.concat

\* C4 witness: a two-block upload (512 bytes, then a short block) is complete.
C4_Witness ==
    /\ track.dir = "up" /\ track.lastshort /\ ~track.failed
    /\ track.n = 2
    /\ Len(track.concat) > BlockSize

\* C5: in a download session, whatever the peer sends, the DATA blocks are
\* numbered 1, 2, ... without going back or skipping, and DATA{n+1} follows
\* DATA{n} only on the ACK of block n.
C5_DownloadMonotone ==
    [][(/\ born = "RRQ" /\ born' = "RRQ"
        /\ reply.type = "DATA" /\ reply'.type = "DATA"
        /\ Turn
        /\ ParsedNext.type # "RRQ")
       => (/\ reply'.blocknum \in {reply.blocknum, reply.blocknum + 1}
           /\ (reply'.blocknum = reply.blocknum + 1 => ParsedNext = Ack(reply.blocknum)))]_vars

\* C6: a malformed packet or a packet with an unknown opcode that arrives in
\* a live session is answered with an ERROR of code 4.
C6_ParseErrorOnWire ==
    (steps > 0 /\ prev_ctx # None /\ inbound \in MalformedPkts)
    => /\ reply.type = "ERROR"
       /\ reply.errorcode = 4
       /\ wire.some

\* C7: once a file I/O failure made the engine send an ERROR, the session is
\* gone: a following ACK or DATA finds no session, gets no reply and touches
\* no file (stated for the following turns in which the host fails nothing).
C7_SessionEndsAfterIoError ==
    [][(/\ reply.type = "ERROR" /\ io_failed /\ wire.some
        /\ Turn /\ ~io_failed'
        /\ ParsedNext.type \in {"ACK", "DATA"})
       => (context' = None /\ reply' = None /\ ~wire'.some /\ file_ops' = {} /\ fs' = fs)]_vars

\* An ERROR packet on the wire: opcode 5 and a two-byte code.
IsErrorPkt(buf) == Len(buf) >= 4 /\ buf[1] = 0 /\ buf[2] = 5

\* C8: an ERROR packet received in a live session, whatever its current_op,
\* destroys the session at once: recv returns no context, nothing is sent,
\* no file is read or written.
C8_InboundErrorDestroys ==
    [][(context # None /\ Turn /\ IsErrorPkt(inbound'))
       => (/\ pc' = "running"
           /\ context' = None
           /\ reply' = None
           /\ ~wire'.some
           /\ file_ops' = {}
           /\ fs' = fs)]_vars

\* C8 witness: a session that had taken a DATA was handed an ERROR packet.
C8_Witness ==
    /\ prev_ctx # None
    /\ prev_ctx.current_op.type = "DATA"
    /\ IsErrorPkt(inbound)
    /\ context = None /\ reply = None

\* C9: with no session, an ACK, a DATA, an ERROR or a malformed packet makes
\* recv return no context, changes no file and sends nothing.
C9_OrphanIsDropped ==
    (steps > 0 /\ prev_ctx = None /\ Parsed.type \notin {"RRQ", "WRQ"})
    => /\ pc = "running"
       /\ context = None
       /\ reply = None
       /\ ~wire.some
       /\ file_ops = {}

\* The Commands of the data model.
WellFormedCommand(c) ==
    \/ c.type \in {"RRQ", "WRQ"} /\ DOMAIN c = {"type", "filename", "mode"}
    \/ c.type = "DATA" /\ c.blocknum \in 0..(U16Mod - 1) /\ Len(c.data) <= BlockSize
    \/ c.type = "ACK" /\ c.blocknum \in 0..(U16Mod - 1)
    \/ c.type = "ERROR" /\ c.errorcode \in 0..(U16Mod - 1)

\* C10: parsing is total: every byte slice, the empty and the one-byte slice
\* included, parses to a well-formed Command and never aborts.
C10_ParseTotal ==
    steps > 0 => (Parsed # Panic /\ WellFormedCommand(Parsed))

\* C11: round trip: for every Command c the engine encodes (DATA, ACK,
\* ERROR), parsing the bytes of get_buffer_for_command(c) gives c back.
C11_RoundTrip ==
    reply # None
    => /\ get_buffer_for_command(reply).some
       /\ process_buffer(get_buffer_for_command(reply).bytes) = reply

\* The names of the error taxonomy.
TftpErrors ==
    {"NotDefined", "FileNotFound", "AccessViolation", "DiskFull", "IllegalOperation",
     "UnknownTransferId", "FileAlreadyExists", "NoSuchUser", "SeekFailed", "UnexpectedEof",
     "InternalError", "MalformedPacket"}

\* C12: a well-formed packet parses to the Command with exactly the fields on
\* the wire: opcode 1/2 and two terminated strings give RRQ/WRQ with that
\* filename and mode, opcode 4 and two bytes ACK with that big-endian block
\* number, opcode 3, two bytes and up to 512 more DATA with that block number
\* and those bytes as payload, opcode 5, two bytes and a terminated string
\* ERROR with that code and message.
C12_ParseWellFormed ==
    steps > 0 =>
      /\ \A f \in FileNames :
           /\ inbound = PktRRQ(f, Octet)
                => Parsed = [type |-> "RRQ", filename |-> f, mode |-> Octet]
           /\ inbound = PktWRQ(f, Octet)
                => Parsed = [type |-> "WRQ", filename |-> f, mode |-> Octet]
      /\ (Len(inbound) >= 4 /\ inbound[1] = 0 /\ inbound[2] = 4)
           => Parsed = [type |-> "ACK", blocknum |-> inbound[3] * 256 + inbound[4]]
      /\ (Len(inbound) >= 4 /\ Len(inbound) <= HeaderLen + BlockSize
            /\ inbound[1] = 0 /\ inbound[2] = 3)
           => Parsed = [type |-> "DATA", blocknum |-> inbound[3] * 256 + inbound[4],
                        data |-> SubSeq(inbound, 5, Len(inbound))]
      /\ \A c \in 0..7 : \A e \in TftpErrors :
           inbound = PktERROR(c, default_message(e))
             => Parsed = [type |-> "ERROR", errorcode |-> c, errmsg |-> default_message(e)]

\* C12 witness: a DATA datagram with block number 2 and a full block parsed.
C12_Witness ==
    /\ steps > 0
    /\ inbound = PktDATA(2, Payload(BlockSize, 0))
    /\ Parsed.type = "DATA" /\ Parsed.blocknum = 2 /\ Len(Parsed.data) = BlockSize

\* Number of 0 bytes in a byte string.
NulCount(s) == Cardinality({i \in 1..Len(s) : s[i] = 0})

\* ERROR code 4 with the text of an illegal operation, and with the text of a
\* malformed packet.
IllegalOperationError == [type |-> "ERROR", errorcode |-> 4, errmsg |-> default_message("IllegalOperation")]
MalformedPacketError == [type |-> "ERROR", errorcode |-> 4, errmsg |-> default_message("MalformedPacket")]

\* C13: parse failures come back as ERROR values of code 4: an opcode outside
\* 1..5 as illegal operation; an RRQ/WRQ lacking a terminator, and a DATA, ACK
\* or ERROR with fewer than 2 bytes after the opcode, as malformed packet; an
\* ERROR packet whose message lacks the terminator is accepted with an empty
\* message.
C13_ParseFailures ==
    (steps > 0 /\ Len(inbound) >= 2) =>
      LET op == inbound[1] * 256 + inbound[2]
          rest == SubSeq(inbound, 3, Len(inbound))
      IN /\ op \notin 1..5 => Parsed = IllegalOperationError
         /\ (op \in {1, 2} /\ NulCount(rest) < 2) => Parsed = MalformedPacketError
         /\ (op \in {3, 4, 5} /\ Len(rest) < 2) => Parsed = MalformedPacketError
         /\ (op = 5 /\ Len(rest) >= 2 /\ NulCount(SubSeq(rest, 3, Len(rest))) = 0)
              => Parsed = [type |-> "ERROR", errorcode |-> rest[1] * 256 + rest[2],
                           errmsg |-> <<>>]

\* C13 witness: a WRQ whose mode lacks the terminator was parsed to the
\* ERROR of a malformed packet.
C13_Witness ==
    /\ steps > 0
    /\ inbound = <<0, 2, 102, 0, 111>>
    /\ Parsed.type = "ERROR" /\ Parsed.errorcode = 4

C15_AckAfterWrite ==
    (steps > 0 /\ pc = "running" /\ context # None) =>
      /\ context.current_op.type = "WRQ"
           => (reply = Ack(0) /\ wire = SomeBytes(PktACK(0)) /\ file_ops = {})
      /\ (context.current_op.type = "DATA" /\ reply.type = "ACK")
           => LET n == context.current_op.blocknum
                  d == context.current_op.data
                  file == Lookup(fs, context.filename)
              IN /\ reply = Ack(n) /\ wire = SomeBytes(PktACK(n))
                 /\ n >= 1
                 /\ ~io_failed /\ injected = NoFault
                 /\ "write" \in file_ops
                 /\ ("create" \in file_ops) = (n = 1)
                 /\ file.exists
                 /\ \A i \in 1..Len(d) : ByteAt(file, (n - 1) * BlockSize + i) = d[i]
                 /\ d # <<>> => file.len >= (n - 1) * BlockSize + Len(d)
                 /\ n = 1 => file.len = Len(d)
      /\ (context.current_op.type = "DATA" /\ io_failed)
           => (reply.type = "ERROR" /\ wire.some /\ wire.bytes[2] = 5)

\* C15 witness: in an upload DATA{2} with a full block was written behind the
\* first block and acknowledged.
C15_Witness ==
    /\ pc = "running" /\ born = "WRQ" /\ context # None
    /\ context.current_op.type = "DATA" /\ context.current_op.blocknum = 2
    /\ Len(context.current_op.data) = BlockSize
    /\ reply = Ack(2)
    /\ Lookup(fs, context.filename).len = 2 * BlockSize

\* The block a read-path context asks for: 1 after the RRQ, m+1 after ACK{m}.
AskedBlock(ctx) ==
    IF ctx.current_op.type = "RRQ" THEN 1 ELSE ctx.current_op.blocknum + 1

\* C16: for a file of length L and a block n >= 1 the reply is DATA{n} whose
\* bytes are the header 00 03 n_hi n_lo and then the bytes of the file from
\* offset (n-1)*512 up to min(n*512, L); a short or empty read is a DATA and
\* no ERROR (the host failing no file operation).
C16_DataBlock ==
    (/\ steps > 0 /\ pc = "running" /\ context # None
     /\ context.current_op.type \in {"RRQ", "ACK"}
     /\ AskedBlock(context) \in 1..(U16Mod - 1)
     /\ Lookup(fs, context.filename).exists
     /\ injected = NoFault)
    => LET n == AskedBlock(context)
           file == Lookup(fs, context.filename)
           from == Min((n - 1) * BlockSize, file.len)
           upto == Min(n * BlockSize, file.len)
       IN /\ reply.type = "DATA"
          /\ reply.blocknum = n
          /\ reply.data = <<0, 3, n \div 256, n % 256>>
                          \o [i \in 1..(upto - from) |-> ByteAt(file, from + i)]
          /\ wire = SomeBytes(reply.data)
          /\ ~io_failed

\* C16 witness: the file is one full block long and block 2 was asked for:
\* the reply is the DATA{2} with an empty payload.
C16_Witness ==
    /\ pc = "running" /\ context # None
    /\ context.current_op = Ack(1)
    /\ Lookup(fs, context.filename).len = BlockSize
    /\ reply = [type |-> "DATA", blocknum |-> 2, data |-> <<0, 3, 0, 2>>]

\* The payload of block m of an upload whose payloads, in order, are concat.
BlockOf(concat, m) ==
    SubSeq(concat, (m - 1) * BlockSize + 1, Min(m * BlockSize, Len(concat)))

\* C17: reprocessing a duplicate is idempotent: a repeated ACK{n} in a
\* download is answered with the same DATA{n+1} again, and a repeated DATA{n}
\* in an upload, for every block n handled before (block 1 after later blocks
\* included), is acknowledged again and leaves the file with the contents it
\* had (stated for an upload that has not had its short block yet, and for
\* the turns in which the host fails no file operation).
C17_DuplicateIdempotent ==
    [][Turn =>
        /\ ((/\ born = "RRQ" /\ prev_ctx # None /\ context # None
             /\ Parsed.type = "ACK" /\ ParsedNext = Parsed
             /\ pc' = "running"
             /\ injected = NoFault /\ injected' = NoFault)
              => reply' = reply)
        /\ ((/\ track.dir = "up" /\ track.ok /\ ~track.failed /\ ~track.lastshort
             /\ context # None
             /\ ParsedNext.type = "DATA"
             /\ ParsedNext.blocknum \in 1..track.n
             /\ ParsedNext.data = BlockOf(track.concat, ParsedNext.blocknum)
             /\ injected' = NoFault)
              => (/\ reply' = Ack(ParsedNext.blocknum)
                  /\ Lookup(fs', context.filename).exists
                  /\ Content(Lookup(fs', context.filename))
                       = Content(Lookup(fs, context.filename))))]_vars

\* A session that is live by every reading: its last datagram was answered
\* with the ACK of a WRQ or of a full block, or with a full DATA block.
LiveReply ==
    /\ context # None /\ pc = "running"
    /\ \/ reply = Ack(0) /\ context.current_op.type = "WRQ"
       \/ reply.type = "ACK" /\ context.current_op.type = "DATA"
            /\ Len(context.current_op.data) = BlockSize
       \/ reply.type = "DATA" /\ ~IsShortData(reply)

\* C18: block numbers wrap modulo 2^16 and the wrap is no error: for every n,
\* 65535 included, the reply to ACK{n} in a live download is the DATA of
\* block (n+1) mod 2^16, like for any other block (the file being there and
\* the host failing no file operation).
C18_WrapUndetected ==
    [][(/\ LiveReply /\ born = "RRQ"
        /\ Turn /\ ParsedNext.type = "ACK"
        /\ Lookup(fs, context.filename).exists
        /\ injected' = NoFault)
       => (/\ pc' = "running"
           /\ reply'.type = "DATA"
           /\ reply'.blocknum = (ParsedNext.blocknum + 1) % U16Mod)]_vars

\* C19: whatever block number 0..65535 an inbound ACK or DATA carries in a
\* live session, DATA{0} and ACK{65535} included, the reply is a Command
\* (DATA, ACK or an ERROR of the taxonomy): the arithmetic on the block
\* number does not abort the engine.
C19_NoBlockArithmeticAbort ==
    [][(LiveReply /\ Turn /\ ParsedNext.type \in {"ACK", "DATA"})
       => (/\ pc' = "running"
           /\ reply'.type \in {"DATA", "ACK", "ERROR"})]_vars

\* The translation table of host I/O failures to wire codes: by the path
\* (read or write), the operation that failed and the kind of the failure.
TableCode(path, op, kind) ==
    CASE op = "flush" -> 3
      [] op = "seek" -> 2
      [] kind = "NotFound" -> 1
      [] kind = "PermissionDenied" -> 2
      [] kind \in {"WriteZero", "UnexpectedEof"} -> IF path = "write" THEN 3 ELSE 2
      [] kind = "AlreadyExists" -> 6
      [] OTHER -> 2

\* The path a context's reply takes: DATA is written, RRQ and ACK are read.
PathOf(ctx) == IF ctx.current_op.type = "DATA" THEN "write" ELSE "read"

\* C20: every host I/O failure on the reply path becomes an ERROR whose wire
\* code follows the table: not-found 1, permission-denied 2, write-zero and
\* unexpected-eof 3 on the write path (create, open for writing, write) and
\* 2 on the read path (open for reading, read), already-exists 6, any other
\* kind 2, a flush failure 3 and a seek failure 2.
C20_TranslationTable ==
    (steps > 0 /\ pc = "running" /\ context # None) =>
      /\ injected # NoFault
           => /\ reply.type = "ERROR"
              /\ reply.errorcode = TableCode(PathOf(context), injected.op, injected.kind)
              /\ wire.some
              /\ SubSeq(wire.bytes, 1, 4) = <<0, 5>> \o to_be_bytes(reply.errorcode)
      /\ (/\ injected = NoFault /\ context.current_op.type \in {"RRQ", "ACK"}
          /\ ~Lookup(fs, context.filename).exists)
           => (reply.type = "ERROR" /\ reply.errorcode = TableCode("read", "open", "NotFound"))

\* The session a request starts: the request as current_op, its filename and
\* mode, both block counters 0.
FreshContext(req) ==
    [current_op |-> req, block_num |-> 0, ack_num |-> 0,
     filename |-> req.filename, mode |-> req.mode]

\* C21: an RRQ or WRQ received while a session exists, whatever its state,
\* replaces it with a fresh session (the new request's current_op, filename
\* and mode, block counters 0) and is answered with the first reply of the
\* new request: ACK{0} for a WRQ, DATA{1} for an RRQ (the file being there
\* and the host failing no file operation); the same when the session before
\* was destroyed by an inbound ERROR.
C21_RequestRestarts ==
    [][(/\ Turn
        /\ ParsedNext.type \in {"RRQ", "WRQ"}
        /\ \/ context # None
           \/ context = None /\ prev_ctx # None /\ IsErrorPkt(inbound))
       => (/\ context' = FreshContext(ParsedNext)
           /\ pc' = "running"
           /\ ParsedNext.type = "WRQ" => (reply' = Ack(0) /\ fs' = fs)
           /\ (/\ ParsedNext.type = "RRQ"
               /\ Lookup(fs, ParsedNext.filename).exists
               /\ injected' = NoFault)
                => (/\ reply'.type = "DATA"
                    /\ reply'.data = <<0, 3, 0, 1>> \o
                         [i \in 1..Min(BlockSize, Lookup(fs, ParsedNext.filename).len) |->
                            ByteAt(Lookup(fs, ParsedNext.filename), i)]
                    /\ fs' = fs))]_vars

\* C21 witness: a session for "g" that had taken a block with a number other
\* than 0 was replaced by the session of a WRQ for "f".
C21_Witness ==
    /\ prev_ctx # None /\ prev_ctx.ack_num # 0 /\ prev_ctx.filename = <<103>>
    /\ Parsed.type = "WRQ"
    /\ context = FreshContext(Parsed) /\ context.filename = <<102>>
    /\ reply = Ack(0)

\* C22: sizes. The payload of a parsed inbound DATA is at most 512 bytes
\* whatever the length of the datagram, so is the payload a session records,
\* and every datagram produced for sending (DATA, ACK or ERROR) is at most
\* 516 bytes long.
C22_SizeBounds ==
    /\ (Parsed.type = "DATA") => (Len(Parsed.data) <= BlockSize)
    /\ (context # None /\ context.current_op.type = "DATA")
         => (Len(context.current_op.data) <= BlockSize)
    /\ wire.some => (Len(wire.bytes) <= HeaderLen + BlockSize)
    /\ (reply # None /\ reply.type = "DATA")
         => (Len(reply.data) <= HeaderLen + BlockSize)

\* C22 witness: a datagram longer than 516 bytes was parsed as a DATA of 512
\* payload bytes and recorded by the session, which answered it.
C22_Witness ==
    /\ Len(inbound) > HeaderLen + BlockSize
    /\ Parsed.type = "DATA" /\ Len(Parsed.data) = BlockSize
    /\ context # None /\ context.current_op = Parsed
    /\ wire.some

\* C23: a download never touches the disk for writing: in a session born
\* from RRQ, no turn creates, truncates or writes a file, whatever the peer
\* sends (stated for sessions still live by every reading, for turns that
\* leave the session a download and in which the host fails no operation).
C23_DownloadNeverWrites ==
    [][(LiveReply /\ born = "RRQ" /\ born' = "RRQ" /\ Turn /\ injected' = NoFault)
       => (/\ fs' = fs
           /\ file_ops' \cap {"create", "open_write", "write"} = {})]_vars

\* C24: the session belongs to the peer whose RRQ/WRQ opened it: a datagram
\* from any other peer leaves the live session as it was, and the reply to an
\* ACK or DATA, which is computed from the session, goes only to the peer
\* that opened the session.
C24_SessionKeyedByPeer ==
    [][(LiveReply /\ owner # NoPeer /\ Turn /\ sender' # owner)
       => (/\ context' = context
           /\ (ParsedNext.type \in {"ACK", "DATA"} /\ wire'.some
                 /\ reply'.type \in {"ACK", "DATA"})
                => (sent_to' = owner))]_vars

\* The operations a session can be replied to.
RepliedOps == {"RRQ", "WRQ", "ACK", "DATA"}

\* C25: every context recv returns has current_op RRQ, WRQ, ACK or DATA and
\* never ERROR, so a reply is computed and serialised for every context recv
\* returns, and an ACK or DATA never meets a session whose current_op is
\* ERROR (the branch that would drop it is never taken). Stated for the
\* turns that start without a session or in a session live by every reading,
\* and in which the host fails no operation.
C25_ReplyForEveryContext ==
    [][(Turn /\ (context = None \/ LiveReply) /\ injected' = NoFault) =>
        LET new_context == recv(inbound', context) IN
        /\ (new_context \notin {None, Panic})
             => (/\ context' = new_context
                 /\ new_context.current_op.type \in RepliedOps
                 /\ reply' # None
                 /\ wire'.some)
        /\ (context # None /\ ParsedNext.type \in {"ACK", "DATA"})
             => (context.current_op.type \in RepliedOps /\ new_context # None)]_vars

\* The kinds of receive failure the claim calls retryable.
Retryable == {"WouldBlock", "TimedOut", "ConnectionReset", "Interrupted"}

\* C26: while it waits for a datagram the host loop retries a failed receive
\* only for the retryable kinds and at most 3 times per wait: the 4th
\* consecutive retryable failure, or the first failure of another kind, ends
\* the loop with that error and leaves the session and the disk as they were;
\* a successful receive starts the next wait with the retry count at 0.
C26_BoundedRetry ==
    [][/\ Turn => (retries' = 0 /\ recv_failure' = "none")
       /\ ~Turn =>
            (/\ pc = "running"
             /\ recv_failure' \in RecvErrorKinds
             /\ IF recv_failure' \in Retryable /\ retries < 3
                THEN retries' = retries + 1 /\ pc' = "running"
                ELSE retries' = retries /\ pc' = "stopped"
             /\ context' = context /\ fs' = fs /\ wire' = wire)
       /\ retries' \in 0..3]_vars

\* C26 witness: the loop ended on the 4th consecutive retryable failure of a
\* wait that followed a successful receive.
C26_Witness ==
    /\ pc = "stopped" /\ retries = 3 /\ recv_failure \in Retryable
    /\ steps > 0 /\ context # None

====
